---------------------------- MODULE Spec2Model ----------------------------
(***************************************************************************)
(* Wave Function Collapse (ThierryCantin-Demers/wave-function-collapse).   *)
(*                                                                         *)
(* The module models six parts of the crate:                               *)
(*   - rules.rs  extract_rules        (specification SpecExtract)          *)
(*   - rules.rs  apply_rules          (specification SpecProp)             *)
(*   - rules.rs  apply_rules under every iteration order of its HashSets   *)
(*                                    (specification SpecOrder)            *)
(*   - state.rs  generate_image       (specification SpecGen)              *)
(*   - state.rs  contains_invalid_tiles, get_lowest_entropy_tile, and      *)
(*     rules.rs  get_possibilities_adjacent_pixels                         *)
(*                                    (specification SpecWave)             *)
(*   - main.rs   apply_rules, generate_image, the earlier driver           *)
(*                                    (specification SpecLegacy)           *)
(* Grids keep the source's 0-based indices: inner[i][j] is a function on   *)
(* 0..n-1 whose values are functions on 0..m-1.  A Rust panic (index out   *)
(* of range, unwrap of None, the panic! of From<Pixel> for Tile) is the    *)
(* outcome Panic and the position pc = "panic".                            *)
(***************************************************************************)
EXTENDS Integers, FiniteSets, Sequences, TLC

VARIABLES
    img,        \* the sample image given to extract_rules
    rules,      \* the rule set (HashSet<Rule>)
    state,      \* the State a driver or apply_rules works on
    old_state,  \* generate_image's snapshot (let mut old_state)
    result,     \* what the operation under study returned
    wave0,      \* the State apply_rules was first given (SpecProp), the State
                \* State::new built (SpecGen), the State before the last
                \* collapse (SpecLegacy)
    passes,     \* number of apply_rules results written back (SpecProp),
                \* of steps generate_image took since its wave was built
                \* (SpecGen)
    pc          \* position in the code

vars == <<img, rules, state, old_state, result, wave0, passes, pc>>

-----------------------------------------------------------------------------
(* Bounds of the model.                                                    *)

\* a sample image has at most this many pixels (width * height)
MaxSampleCells == 4
\* a wave handed to apply_rules has at most this many cells
MaxPropCells == 4
\* apply_rules results written back to the wave at most this many times
MaxPasses == 5
\* generate_image is asked for widths and heights 1..MaxGenDim
MaxGenDim == 2
\* cells of a wave over three labels given to apply_rules
MaxChainCells == 2
\* cells of a wave, and rules of a rule set, given to apply_rules when the
\* iteration orders of its HashSets are enumerated
MaxOrderCells == 3
MaxOrderRules == 5

-----------------------------------------------------------------------------
(* enums.rs                                                                *)

Tile == {"Red", "Green", "Blue"}

Direction == {"Up", "Down", "Left", "Right"}

\* Direction::offset
offset(d) ==
    CASE d = "Up"    -> <<0, -1>>
      [] d = "Down"  -> <<0, 1>>
      [] d = "Left"  -> <<-1, 0>>
      [] d = "Right" -> <<1, 0>>

Pixel(r0, g0, b0) == [r |-> r0, g |-> g0, b |-> b0]

\* impl From<Tile> for Pixel
PixelFromTile(tile) ==
    CASE tile = "Red"   -> Pixel(255, 0, 0)
      [] tile = "Green" -> Pixel(0, 255, 0)
      [] tile = "Blue"  -> Pixel(0, 0, 255)

\* the conversion with a default label in place of panic!: the faulty
\* variant C17 is measured against
TileFromPixelDefaultRed(pixel) ==
    IF pixel.r = 255 /\ pixel.g = 0 /\ pixel.b = 0 THEN "Red"
    ELSE IF pixel.r = 0 /\ pixel.g = 255 /\ pixel.b = 0 THEN "Green"
    ELSE IF pixel.r = 0 /\ pixel.g = 0 /\ pixel.b = 255 THEN "Blue"
    ELSE "Red"

\* impl From<Pixel> for Tile; the final else branch is panic!
TileFromPixel(pixel) ==
    IF pixel.r = 255 /\ pixel.g = 0 /\ pixel.b = 0 THEN "Red"
    ELSE IF pixel.r = 0 /\ pixel.g = 255 /\ pixel.b = 0 THEN "Green"
    ELSE IF pixel.r = 0 /\ pixel.g = 0 /\ pixel.b = 255 THEN "Blue"
    ELSE "panic"

\* the colours sample images are drawn from: the three tile colours and one
\* colour that is no tile
Palette == {PixelFromTile(t) : t \in Tile} \cup {Pixel(0, 0, 0)}

-----------------------------------------------------------------------------
(* rules.rs: Rule, extract_rules                                           *)

\* Rule::new
Rule(curr, adj, dir) == [curr_tile |-> curr, adj_tile |-> adj, direction |-> dir]

\* bmp::Image as extract_rules reads it: get_width, get_height, get_pixel
Image(w, h, px) == [width |-> w, height |-> h, pixels |-> px]

get_pixel(image, x, y) == image.pixels[<<x, y>>]

\* img.coordinates()
coordinates(image) == (0 .. image.width - 1) \X (0 .. image.height - 1)

\* Option<T>, and the outcome of a call that panicked
None == [tag |-> "None"]

Some(v) == [tag |-> "Some", val |-> v]

Panic == [tag |-> "Panic"]

\* the operation under study has not returned yet
Pending == [tag |-> "Pending"]

\* get_image_adjacent_pixels with the lower and right edges tested one cell
\* too early (y < h - 2, x < w - 2): the faulty variant C6 is measured against
get_image_adjacent_pixels_short(image, x, y) ==
    [up    |-> IF y > 0 THEN Some(get_pixel(image, x, y - 1)) ELSE None,
     down  |-> IF y < image.height - 2 THEN Some(get_pixel(image, x, y + 1)) ELSE None,
     left  |-> IF x > 0 THEN Some(get_pixel(image, x - 1, y)) ELSE None,
     right |-> IF x < image.width - 2 THEN Some(get_pixel(image, x + 1, y)) ELSE None]

\* get_image_adjacent_pixels: (up, down, left, right) as a record
get_image_adjacent_pixels(image, x, y) ==
    [up    |-> IF y > 0 THEN Some(get_pixel(image, x, y - 1)) ELSE None,
     down  |-> IF y < image.height - 1 THEN Some(get_pixel(image, x, y + 1)) ELSE None,
     left  |-> IF x > 0 THEN Some(get_pixel(image, x - 1, y)) ELSE None,
     right |-> IF x < image.width - 1 THEN Some(get_pixel(image, x + 1, y)) ELSE None]

\* the insertion with the two tiles in the other order (the current pixel as
\* curr_tile, as extract_rules of main.rs has it): the faulty variant C5 is
\* measured against
RuleInsertedSwapped(adjacent, curr_pixel, dir) ==
    IF adjacent.tag = "Some"
    THEN {Rule(TileFromPixel(curr_pixel), TileFromPixel(adjacent.val), dir)}
    ELSE {}

\* the four `if <side>.is_some() { rules.insert(Rule::new(<side>.unwrap().into(),
\* curr_tile.into(), Direction::<Side>)) }` of one loop iteration
RuleInserted(adjacent, curr_pixel, dir) ==
    IF adjacent.tag = "Some"
    THEN {Rule(TileFromPixel(adjacent.val), TileFromPixel(curr_pixel), dir)}
    ELSE {}

\* one loop iteration with Direction::Up and Direction::Down exchanged: the
\* faulty variant C7 is measured against
RulesAtUpDown(image, x, y) ==
    LET curr_tile == get_pixel(image, x, y)
        adj == get_image_adjacent_pixels(image, x, y)
    IN  RuleInserted(adj.up, curr_tile, "Down")
        \cup RuleInserted(adj.down, curr_tile, "Up")
        \cup RuleInserted(adj.left, curr_tile, "Left")
        \cup RuleInserted(adj.right, curr_tile, "Right")

RulesAt(image, x, y) ==
    LET curr_tile == get_pixel(image, x, y)
        adj == get_image_adjacent_pixels(image, x, y)
    IN  RuleInserted(adj.up, curr_tile, "Up")
        \cup RuleInserted(adj.down, curr_tile, "Down")
        \cup RuleInserted(adj.left, curr_tile, "Left")
        \cup RuleInserted(adj.right, curr_tile, "Right")

\* every rule the loop of extract_rules inserts, panics not yet looked at
ExtractedRules(image) ==
    UNION {RulesAt(image, c[1], c[2]) : c \in coordinates(image)}

\* extract_rules: the set of rules, or Panic when an .into() met a pixel
\* that is no tile
extract_rules(image) ==
    LET rs == ExtractedRules(image)
    IN  IF \E r \in rs : r.curr_tile = "panic" \/ r.adj_tile = "panic"
        THEN Panic
        ELSE Some(rs)

-----------------------------------------------------------------------------
(* state.rs: PossibleVals, State                                           *)

\* vec![v; n] with the source's indices 0..n-1
VecOf(n, v) == [i \in 0 .. n - 1 |-> v]

\* whether inner[x][y] is an element (otherwise indexing panics)
InRange(inner, x, y) == x \in DOMAIN inner /\ y \in DOMAIN inner[x]

\* PossibleVals::get / State::get: inner[x][y].clone()
get(inner, x, y) == inner[x][y]

\* PossibleVals::size
size(inner) ==
    LET w == Cardinality(DOMAIN inner)
    IN  IF w = 0 THEN None ELSE Some(<<w, Cardinality(DOMAIN inner[0])>>)

\* struct State
MkState(pv, w, h, idx) ==
    [possible_vals |-> pv, width |-> w, height |-> h, curr_file_index |-> idx]

\* State::new: inner = vec![vec![all_tiles_types; w]; h]
StateNew(w, h, all_tiles_types) ==
    MkState(VecOf(h, VecOf(w, all_tiles_types)), w, h, 0)

\* State::with_possibilities
with_possibilities(st, pv) == [st EXCEPT !.possible_vals = pv]

\* the (i, j) at which inner[i][j] is an element
Cells(inner) == UNION {{<<i, j>> : j \in DOMAIN inner[i]} : i \in DOMAIN inner}

RECURSIVE SumLen(_, _)
SumLen(inner, S) ==
    IF S = {} THEN 0
    ELSE LET c == CHOOSE c \in S : TRUE
         IN  Cardinality(inner[c[1]][c[2]]) + SumLen(inner, S \ {c})

\* the count stopped one flatten() short, the number of cells: the faulty
\* variant C34 is measured against
get_total_entropy_cells(st) == Cardinality(Cells(st.possible_vals))

\* State::get_total_entropy: inner.iter().flatten().flatten().count()
get_total_entropy(st) == SumLen(st.possible_vals, Cells(st.possible_vals))

\* the loops given up after the first row: the faulty variant C15 is measured
\* against
contains_invalid_tiles_first_row(inner) ==
    \E c \in Cells(inner) : c[1] = 0 /\ inner[c[1]][c[2]] = {}

\* contains_invalid_tiles
contains_invalid_tiles(inner) == \E c \in Cells(inner) : inner[c[1]][c[2]] = {}

-----------------------------------------------------------------------------
(* rules.rs: get_possibilities_adjacent_pixels, apply_rules                *)

\* the indexing get_possibilities_adjacent_pixels does at (x, y) goes out of
\* range (size() is Some((w, h)) here)
AdjacentPanics(inner, x, y) ==
    LET w == size(inner).val[1]
        h == size(inner).val[2]
    IN  \/ ~InRange(inner, x, y)
        \/ y > 0 /\ ~InRange(inner, x, y - 1)
        \/ y < h - 1 /\ ~InRange(inner, x, y + 1)
        \/ x > 0 /\ ~InRange(inner, x - 1, y)
        \/ x < w - 1 /\ ~InRange(inner, x + 1, y)

\* the neighbours read one cell further away where the wave has one: the
\* faulty variant C27 is measured against
get_possibilities_adjacent_pixels_two_away(inner, x, y) ==
    IF size(inner) = None
    THEN [curr |-> None, up |-> None, down |-> None, left |-> None, right |-> None]
    ELSE LET w == size(inner).val[1]
             h == size(inner).val[2]
         IN  [curr  |-> Some(get(inner, x, y)),
              up    |-> IF y > 0
                        THEN Some(get(inner, x, IF y > 1 THEN y - 2 ELSE y - 1))
                        ELSE None,
              down  |-> IF y < h - 1
                        THEN Some(get(inner, x, IF y < h - 2 THEN y + 2 ELSE y + 1))
                        ELSE None,
              left  |-> IF x > 0
                        THEN Some(get(inner, IF x > 1 THEN x - 2 ELSE x - 1, y))
                        ELSE None,
              right |-> IF x < w - 1
                        THEN Some(get(inner, IF x < w - 2 THEN x + 2 ELSE x + 1, y))
                        ELSE None]

\* get_possibilities_adjacent_pixels: (curr, up, down, left, right) as a record
get_possibilities_adjacent_pixels(inner, x, y) ==
    IF size(inner) = None
    THEN [curr |-> None, up |-> None, down |-> None, left |-> None, right |-> None]
    ELSE LET w == size(inner).val[1]
             h == size(inner).val[2]
         IN  [curr  |-> Some(get(inner, x, y)),
              up    |-> IF y > 0 THEN Some(get(inner, x, y - 1)) ELSE None,
              down  |-> IF y < h - 1 THEN Some(get(inner, x, y + 1)) ELSE None,
              left  |-> IF x > 0 THEN Some(get(inner, x - 1, y)) ELSE None,
              right |-> IF x < w - 1 THEN Some(get(inner, x + 1, y)) ELSE None]

\* the chain without its last branch (Direction::Right never looked at): the
\* faulty variant C8 is measured against
RuleViolatedNoRight(rule, adj) ==
    IF rule.direction = "Up" /\ adj.up.tag = "Some"
    THEN rule.adj_tile \notin adj.up.val
    ELSE IF rule.direction = "Down" /\ adj.down.tag = "Some"
    THEN rule.adj_tile \notin adj.down.val
    ELSE IF rule.direction = "Left" /\ adj.left.tag = "Some"
    THEN rule.adj_tile \notin adj.left.val
    ELSE FALSE

\* the if / else-if chain of apply_rules for one rule whose curr_tile is the
\* possibility looked at: TRUE when it sets valid = false
RuleViolated(rule, adj) ==
    IF rule.direction = "Up" /\ adj.up.tag = "Some"
    THEN rule.adj_tile \notin adj.up.val
    ELSE IF rule.direction = "Down" /\ adj.down.tag = "Some"
    THEN rule.adj_tile \notin adj.down.val
    ELSE IF rule.direction = "Left" /\ adj.left.tag = "Some"
    THEN rule.adj_tile \notin adj.left.val
    ELSE IF rule.direction = "Right" /\ adj.right.tag = "Some"
    THEN rule.adj_tile \notin adj.right.val
    ELSE FALSE

\* `valid` read as a permission: a possibility that is the curr_tile of no
\* rule is not valid.  The faulty variant C4 is measured against
ValidNeedsRule(possibility, adj, rs) ==
    /\ \E rule \in rs : rule.curr_tile = possibility
    /\ \A rule \in rs : rule.curr_tile = possibility => ~RuleViolated(rule, adj)

\* `valid` after the loop over the rules, for one possibility
Valid(possibility, adj, rs) ==
    \A rule \in rs : rule.curr_tile = possibility => ~RuleViolated(rule, adj)

\* the set stored at (x, y) when the candidates are taken from the alphabet of
\* the rule set instead of the cell's own set: the faulty variant C9 is
\* measured against
NewTilePossibilitiesFromAlphabet(inner, rs, x, y) ==
    LET possibilities == get(inner, x, y)
        adj == get_possibilities_adjacent_pixels(inner, x, y)
    IN  IF Cardinality(possibilities) = 1
        THEN possibilities
        ELSE {possibility \in {r.curr_tile : r \in rs} \cup {r.adj_tile : r \in rs} :
                Valid(possibility, adj, rs)}

\* the set stored at (x, y) without the `if possibilities.len() == 1
\* { continue; }`: the faulty variant C10 is measured against
NewTilePossibilitiesNoSkip(inner, rs, x, y) ==
    LET possibilities == get(inner, x, y)
        adj == get_possibilities_adjacent_pixels(inner, x, y)
    IN  {possibility \in possibilities : Valid(possibility, adj, rs)}

\* the set apply_rules stores at (x, y): a cell of length 1 is skipped
\* (`continue`), any other gets new_tile_possibilities
NewTilePossibilities(inner, rs, x, y) ==
    LET possibilities == get(inner, x, y)
        adj == get_possibilities_adjacent_pixels(inner, x, y)
    IN  IF Cardinality(possibilities) = 1
        THEN possibilities
        ELSE {possibility \in possibilities : Valid(possibility, adj, rs)}

\* some index of the loops `for x in 0..w { for y in 0..h` is out of range
ApplyRulesPanics(st) ==
    \E x \in 0 .. st.width - 1, y \in 0 .. st.height - 1 :
        \/ ~InRange(st.possible_vals, x, y)
        \/ /\ Cardinality(get(st.possible_vals, x, y)) # 1
           /\ AdjacentPanics(st.possible_vals, x, y)

\* new_possibilities when the loops end
NewPossibilities(st, rs) ==
    LET inner == st.possible_vals
    IN  [i \in DOMAIN inner |->
            [j \in DOMAIN inner[i] |->
                IF i < st.width /\ j < st.height
                THEN NewTilePossibilities(inner, rs, i, j)
                ELSE inner[i][j]]]

\* apply_rules: Some(new state), None, or a panic
apply_rules(st, rs) ==
    IF ApplyRulesPanics(st) THEN Panic
    ELSE IF contains_invalid_tiles(NewPossibilities(st, rs)) THEN None
    ELSE Some(with_possibilities(st, NewPossibilities(st, rs)))

-----------------------------------------------------------------------------
(* rules.rs: apply_rules with the iteration orders of `rules.iter()` and   *)
(* `possibilities.iter()` made explicit.  A HashSet iterates in an order   *)
(* the program does not choose: ruleSeq and tileSeq are that order.        *)

\* the flag assigned from every rule of the possibility, without `break`,
\* so that the last rule iterated decides: the faulty variant C35 is
\* measured against
RECURSIVE ValidInOrderLastWins(_, _, _)
ValidInOrderLastWins(possibility, adj, ruleSeq) ==
    IF ruleSeq = << >> THEN TRUE
    ELSE LET rule == ruleSeq[Len(ruleSeq)]
             front == SubSeq(ruleSeq, 1, Len(ruleSeq) - 1)
         IN  IF rule.curr_tile # possibility
             THEN ValidInOrderLastWins(possibility, adj, front)
             ELSE ~RuleViolated(rule, adj)

\* `let mut valid = true; for rule in rules.iter() { ... }`: a rule of another
\* curr_tile is skipped (`continue`), a violated rule sets valid = false and
\* leaves the loop (`break`)
RECURSIVE ValidInOrder(_, _, _)
ValidInOrder(possibility, adj, ruleSeq) ==
    IF ruleSeq = << >> THEN TRUE
    ELSE LET rule == Head(ruleSeq)
         IN  IF rule.curr_tile # possibility
             THEN ValidInOrder(possibility, adj, Tail(ruleSeq))
             ELSE IF RuleViolated(rule, adj)
             THEN FALSE
             ELSE ValidInOrder(possibility, adj, Tail(ruleSeq))

\* `for possibility in possibilities.iter() { ... if valid {
\* new_tile_possibilities.insert(possibility.clone()) } }`, the possibilities
\* of the cell met in the order of tileSeq
RECURSIVE InsertedInOrder(_, _, _, _)
InsertedInOrder(possibilities, adj, ruleSeq, tileSeq) ==
    IF tileSeq = << >> THEN {}
    ELSE LET possibility == Head(tileSeq)
             rest == InsertedInOrder(possibilities, adj, ruleSeq, Tail(tileSeq))
         IN  IF possibility \in possibilities /\ ValidInOrder(possibility, adj, ruleSeq)
             THEN rest \cup {possibility}
             ELSE rest

\* the set stored at (x, y) under these orders
NewTilePossibilitiesInOrder(inner, ruleSeq, tileSeq, x, y) ==
    LET possibilities == get(inner, x, y)
        adj == get_possibilities_adjacent_pixels(inner, x, y)
    IN  IF Cardinality(possibilities) = 1
        THEN possibilities
        ELSE InsertedInOrder(possibilities, adj, ruleSeq, tileSeq)

\* new_possibilities when the loops end, under these orders
NewPossibilitiesInOrder(st, ruleSeq, tileSeq) ==
    LET inner == st.possible_vals
    IN  [i \in DOMAIN inner |->
            [j \in DOMAIN inner[i] |->
                IF i < st.width /\ j < st.height
                THEN NewTilePossibilitiesInOrder(inner, ruleSeq, tileSeq, i, j)
                ELSE inner[i][j]]]

\* apply_rules under these orders: Some(new state), None, or a panic
apply_rules_in_order(st, ruleSeq, tileSeq) ==
    IF ApplyRulesPanics(st) THEN Panic
    ELSE IF contains_invalid_tiles(NewPossibilitiesInOrder(st, ruleSeq, tileSeq))
    THEN None
    ELSE Some(with_possibilities(st, NewPossibilitiesInOrder(st, ruleSeq, tileSeq)))

-----------------------------------------------------------------------------
(* main.rs: the earlier apply_rules, which updates the State in place.     *)
(* A Rule is the tuple (curr_tile, adj_tile, direction) there; it is kept  *)
(* as the record Rule(curr, adj, dir) here.                                *)

\* the neighbour (adj_x, adj_y) of (x, y) that a rule's direction.offset()
\* gives
main_adj(rule, x, y) ==
    <<x + offset(rule.direction)[1], y + offset(rule.direction)[2]>>

\* the rule reaches the lookup of its neighbour: its curr_tile is in the
\* cell's set and (adj_x, adj_y) is not skipped by the bounds test
main_RuleLooksUp(st, rule, x, y) ==
    LET a == main_adj(rule, x, y)
    IN  /\ rule.curr_tile \in get(st.possible_vals, x, y)
        /\ ~(a[1] < 0 \/ a[1] >= st.width \/ a[2] < 0 \/ a[2] >= st.height)

\* the removal whose test is made on the cell's own set instead of the
\* neighbour's: the faulty variant C30 is measured against
main_RuleRemovesOwnSet(st, rule, x, y) ==
    /\ main_RuleLooksUp(st, rule, x, y)
    /\ rule.adj_tile \notin get(st.possible_vals, x, y)

\* `new_state[x][y].remove(curr_tile)` is executed for this rule
main_RuleRemoves(st, rule, x, y) ==
    LET a == main_adj(rule, x, y)
    IN  /\ main_RuleLooksUp(st, rule, x, y)
        /\ rule.adj_tile \notin get(st.possible_vals, a[1], a[2])

\* some index of main.rs apply_rules is out of range
main_ApplyRulesPanics(st, rs) ==
    \E x \in 0 .. st.width - 1, y \in 0 .. st.height - 1 :
        \/ ~InRange(st.possible_vals, x, y)
        \/ /\ Cardinality(get(st.possible_vals, x, y)) # 1
           /\ \E rule \in rs :
                 /\ main_RuleLooksUp(st, rule, x, y)
                 /\ ~InRange(st.possible_vals, main_adj(rule, x, y)[1],
                             main_adj(rule, x, y)[2])

\* new_state when the loops of main.rs apply_rules end
main_NewPossibilities(st, rs) ==
    LET inner == st.possible_vals
    IN  [i \in DOMAIN inner |->
            [j \in DOMAIN inner[i] |->
                IF i < st.width /\ j < st.height /\ Cardinality(inner[i][j]) # 1
                THEN inner[i][j] \ {rule.curr_tile : rule \in
                                        {r \in rs : main_RuleRemoves(st, r, i, j)}}
                ELSE inner[i][j]]]

\* main.rs apply_rules: the State after `curr_state.possible_vals =
\* new_state.clone()`, or a panic
main_apply_rules(st, rs) ==
    IF main_ApplyRulesPanics(st, rs) THEN Panic
    ELSE Some([st EXCEPT !.possible_vals = main_NewPossibilities(st, rs)])

-----------------------------------------------------------------------------
(* state.rs: get_image_from_possible_vals, get_lowest_entropy_tile         *)

\* (x, y) comes before (u, v) in `for x in 0..w { for y in 0..h`
Before(c, d) == c[1] < d[1] \/ (c[1] = d[1] /\ c[2] < d[2])

\* get_image_from_possible_vals: the loops stop at the first (x, y) whose
\* state.get(x, y) is out of range (panic) or has len() != 1 (return None)
get_image_from_possible_vals(st) ==
    LET inner == st.possible_vals
        coords == (0 .. st.width - 1) \X (0 .. st.height - 1)
        stops == {c \in coords :
                    \/ ~InRange(inner, c[1], c[2])
                    \/ Cardinality(get(inner, c[1], c[2])) # 1}
    IN  IF stops = {}
        THEN Some(Image(st.width, st.height,
                        [c \in coords |->
                            PixelFromTile(CHOOSE t \in get(inner, c[1], c[2]) : TRUE)]))
        ELSE LET first == CHOOSE c \in stops : \A d \in stops \ {c} : Before(c, d)
             IN  IF ~InRange(inner, first[1], first[2]) THEN Panic ELSE None

\* get_lowest_entropy_tile: min_entropy_tiles when the loops end (the cells
\* of length != 1 whose length is least); the function returns one of them
\* at random, or None when there is none
min_entropy_tiles(inner) ==
    LET cand == {c \in Cells(inner) : Cardinality(inner[c[1]][c[2]]) # 1}
    IN  {c \in cand : \A d \in cand :
            Cardinality(inner[c[1]][c[2]]) <= Cardinality(inner[d[1]][d[2]])}

\* the alphabet without `all_tiles_types.insert(rule.adj_tile.clone())`: the
\* faulty variant C16 is measured against
all_tiles_types_curr_only(rs) == {r.curr_tile : r \in rs}

\* the alphabet generate_image collects from the rule set
all_tiles_types(rs) == {r.curr_tile : r \in rs} \cup {r.adj_tile : r \in rs}

\* the collapse that keeps only the row of the chosen cell: the faulty
\* variant C29 is measured against
CollapsedRowOnly(st, c, colour) ==
    [st EXCEPT !.possible_vals =
        [i \in {c[1]} |-> [st.possible_vals[i] EXCEPT ![c[2]] = {colour}]]]

\* the assignment made to a copy and lost: the faulty variant C22 is
\* measured against
CollapsedNowhere(st, c, colour) == st

\* the assignment without `.with(next_tile_color.clone())`: the faulty
\* variant C21 is measured against
CollapsedToEmpty(st, c, colour) ==
    [st EXCEPT !.possible_vals[c[1]][c[2]] = {}]

\* inner[x][y] = HashSet::new().with(colour)
Collapsed(st, c, colour) ==
    [st EXCEPT !.possible_vals[c[1]][c[2]] = {colour}]

-----------------------------------------------------------------------------
(* Rule sets and inputs                                                    *)

\* rules.rs tests: rules_red_green_ud, rules_red_green_lr, rules_red_udlr
RulesRedGreenUD ==
    {Rule("Red", "Red", "Down"), Rule("Red", "Red", "Up"),
     Rule("Green", "Green", "Down"), Rule("Green", "Green", "Up")}

RulesRedGreenLR ==
    {Rule("Red", "Red", "Left"), Rule("Red", "Red", "Right"),
     Rule("Green", "Green", "Left"), Rule("Green", "Green", "Right")}

RulesRedUDLR ==
    {Rule("Red", "Red", "Down"), Rule("Red", "Red", "Up"),
     Rule("Red", "Red", "Left"), Rule("Red", "Red", "Right")}

\* rules.rs test_extract_rules: the sample and the expected rule set
ScenarioAImage ==
    Image(2, 2, [c \in (0 .. 1) \X (0 .. 1) |->
                    IF c = <<1, 0>> THEN PixelFromTile("Blue") ELSE PixelFromTile("Red")])

RulesScenarioA ==
    {Rule("Red", "Red", "Down"), Rule("Red", "Red", "Up"),
     Rule("Red", "Red", "Right"), Rule("Red", "Red", "Left"),
     Rule("Red", "Blue", "Left"), Rule("Blue", "Red", "Right"),
     Rule("Red", "Blue", "Down"), Rule("Blue", "Red", "Up")}

\* Red next to Red and Green next to Green in all four directions
RulesRedGreenUDLR == RulesRedGreenUD \cup RulesRedGreenLR

\* Green is in the alphabet (an adj_tile) and the curr_tile of no rule
RulesGreenNoSubject == RulesRedUDLR \cup {Rule("Red", "Green", "Up")}

\* a rule set over three labels whose constraints pass from cell to cell:
\* Blue needs Blue on its right, Green needs Blue on its left and Green on
\* its right
RulesRelay ==
    {Rule("Blue", "Blue", "Right"), Rule("Green", "Blue", "Left"),
     Rule("Green", "Green", "Right")}

\* a cell whose left neighbour holds only Red loses both labels in one pass
RulesGreenOnLeft ==
    {Rule("Red", "Green", "Left"), Rule("Green", "Green", "Left")}

\* Red needs Green on its left, and both labels need Red above: a cell right
\* of a Red one becomes {Green}, and the cell below that one loses both
\* labels a pass later
RulesSecondHop ==
    {Rule("Red", "Green", "Left"), Rule("Red", "Red", "Up"),
     Rule("Green", "Red", "Up")}

\* the sample images extract_rules is given
Shapes(maxCells) ==
    {s \in (1 .. maxCells) \X (1 .. maxCells) : s[1] * s[2] <= maxCells}

Samples ==
    UNION {{Image(s[1], s[2], px) :
                px \in [(0 .. s[1] - 1) \X (0 .. s[2] - 1) -> Palette]} :
           s \in Shapes(MaxSampleCells)}

\* the rule sets apply_rules is given
RuleSets ==
    {{}, RulesRedGreenUD, RulesRedGreenLR, RulesRedUDLR, RulesScenarioA,
     RulesRedGreenUDLR, RulesGreenNoSubject, RulesRelay}

\* the rule sets generate_image is given: alphabets of 0, 1 and 2 labels
GenRuleSets == {{}, RulesRedUDLR, RulesRedGreenUDLR, RulesGreenNoSubject}

\* the rule sets generate_image of main.rs is given
LegacyRuleSets ==
    {{}, RulesRedUDLR, RulesRedGreenUDLR, RulesGreenOnLeft, RulesSecondHop}

\* the possibility sets of the waves apply_rules is given
PropTiles == {"Red", "Green"}

\* the States apply_rules is given: width w, height h, and inner either
\* indexed [x][y] (w vectors of h sets, as the tests of rules.rs build it)
\* or as State::new lays it out (h vectors of w sets)
PropStates ==
    UNION {{MkState(pv, s[1], s[2], 0) :
                pv \in [0 .. s[1] - 1 -> [0 .. s[2] - 1 -> SUBSET PropTiles]]
                       \cup [0 .. s[2] - 1 -> [0 .. s[1] - 1 -> SUBSET PropTiles]]} :
           s \in Shapes(MaxPropCells)}

\* the smaller States over all three labels apply_rules is given, in the
\* same two layouts
ChainStates ==
    UNION {{MkState(pv, s[1], s[2], 0) :
                pv \in [0 .. s[1] - 1 -> [0 .. s[2] - 1 -> SUBSET Tile]]
                       \cup [0 .. s[2] - 1 -> [0 .. s[1] - 1 -> SUBSET Tile]]} :
           s \in Shapes(MaxChainCells)}

\* the orders in which a HashSet holding S may iterate
Orders(S) ==
    {f \in [1 .. Cardinality(S) -> S] :
        \A i, j \in 1 .. Cardinality(S) : f[i] = f[j] => i = j}

\* the rule sets and States apply_rules is given when the orders are
\* enumerated
OrderRuleSets == {rs \in RuleSets : Cardinality(rs) <= MaxOrderRules}

OrderStates ==
    UNION {{MkState(pv, s[1], s[2], 0) :
                pv \in [0 .. s[1] - 1 -> [0 .. s[2] - 1 -> SUBSET PropTiles]]
                       \cup [0 .. s[2] - 1 -> [0 .. s[1] - 1 -> SUBSET PropTiles]]} :
           s \in Shapes(MaxOrderCells)}

NoImage == Image(0, 0, << >>)

NoState == MkState(<< >>, 0, 0, 0)

-----------------------------------------------------------------------------
(* SpecExtract: extract_rules on every sample                              *)

InitExtract ==
    /\ img \in Samples
    /\ rules = {}
    /\ state = NoState
    /\ old_state = NoState
    /\ result = Pending
    /\ wave0 = NoState
    /\ passes = 0
    /\ pc = "extract"

\* let rules = extract_rules(&input_img)
Extract ==
    /\ pc = "extract"
    /\ result' = extract_rules(img)
    /\ rules' = IF result'.tag = "Some" THEN result'.val ELSE rules
    /\ pc' = IF result'.tag = "Some" THEN "extracted" ELSE "panic"
    /\ UNCHANGED <<img, state, old_state, wave0, passes>>

NextExtract == Extract

SpecExtract == InitExtract /\ [][NextExtract]_vars

-----------------------------------------------------------------------------
(* SpecProp: apply_rules, called again on its own result                   *)

InitProp ==
    /\ img = NoImage
    /\ rules \in RuleSets
    /\ state \in PropStates \cup ChainStates
    /\ old_state = NoState
    /\ result = Pending
    /\ wave0 = state
    /\ passes = 0
    /\ pc = "ready"

\* the call made on a propagator that writes its grid into the State it is
\* given: the faulty variant C28 is measured against
ApplyRulesInPlace ==
    /\ pc = "ready"
    /\ result' = apply_rules(state, rules)
    /\ state' = IF result'.tag = "Some" THEN result'.val ELSE state
    /\ pc' = "applied"
    /\ UNCHANGED <<img, rules, old_state, wave0, passes>>

\* let new_state = apply_rules(&state, &rules)
ApplyRules ==
    /\ pc = "ready"
    /\ result' = apply_rules(state, rules)
    /\ pc' = "applied"
    /\ UNCHANGED <<img, rules, state, old_state, wave0, passes>>

\* let new_state = new_state.unwrap(), the state of the next call
Replace ==
    /\ pc = "applied"
    /\ result.tag = "Some"
    /\ passes < MaxPasses
    /\ state' = result.val
    /\ passes' = passes + 1
    /\ pc' = "ready"
    /\ UNCHANGED <<img, rules, old_state, result, wave0>>

NextProp == ApplyRules \/ Replace

SpecProp == InitProp /\ [][NextProp]_vars

-----------------------------------------------------------------------------
(* SpecGen: generate_image of state.rs                                     *)

\* generate_image(w, h, rules) is entered: `state` holds the arguments w and
\* h, the wave is not built yet
InitGen ==
    /\ img = NoImage
    /\ rules \in GenRuleSets
    /\ \E w \in 1 .. MaxGenDim, h \in 1 .. MaxGenDim :
          state = MkState(<< >>, w, h, 0)
    /\ old_state = NoState
    /\ result = Pending
    /\ wave0 = NoState
    /\ passes = 0
    /\ pc = "new"

\* up to the `while` loop: the alphabet is collected, then
\* State::new(w, h, &all_tiles_types) and save_into_file("initial")
NewState ==
    /\ pc = "new"
    /\ state' = [StateNew(state.width, state.height, all_tiles_types(rules))
                    EXCEPT !.curr_file_index = 1]
    /\ wave0' = state'
    /\ pc' = "outer"
    /\ UNCHANGED <<img, rules, old_state, result, passes>>

\* the loop condition written `tile.len() != 1`, true of an empty cell: the
\* faulty variant C36 is measured against
AnyUndeterminedNotOne(st) ==
    \E c \in Cells(st.possible_vals) :
        Cardinality(st.possible_vals[c[1]][c[2]]) # 1

\* `while ... any(|tile| tile.len() > 1)`
AnyUndetermined(st) ==
    \E c \in Cells(st.possible_vals) :
        Cardinality(st.possible_vals[c[1]][c[2]]) > 1

\* the position after `apply_rules(&state, rules);`, whose result is dropped:
\* only a panic inside the call shows
AfterApplyRules(st, rs, next) ==
    IF apply_rules(st, rs) = Panic THEN "panic" ELSE next

\* one iteration of the outer loop up to the first apply_rules call: snapshot,
\* pick a lowest-entropy cell, collapse it to one of its labels
CollapseStep ==
    /\ pc = "outer"
    /\ AnyUndetermined(state)
    /\ old_state' = state
    /\ IF min_entropy_tiles(state.possible_vals) = {}
       THEN /\ pc' = "decode"
            /\ UNCHANGED state
       ELSE \E next_tile_coord \in min_entropy_tiles(state.possible_vals) :
              LET cell == state.possible_vals[next_tile_coord[1]][next_tile_coord[2]]
              IN  IF cell = {}
                  THEN /\ pc' = "panic"
                       /\ UNCHANGED state
                  ELSE \E next_tile_color \in cell :
                         /\ state' = Collapsed(state, next_tile_coord, next_tile_color)
                         /\ pc' = AfterApplyRules(state', rules, "retry")
    /\ result' = IF pc' = "panic" THEN Panic ELSE result
    /\ passes' = passes + 1
    /\ UNCHANGED <<img, rules, wave0>>

\* the outer loop's condition is false
ExitOuter ==
    /\ pc = "outer"
    /\ ~AnyUndetermined(state)
    /\ pc' = "decode"
    /\ passes' = passes + 1
    /\ UNCHANGED <<img, rules, state, old_state, result, wave0>>

\* `while contains_invalid_tiles(&state.possible_vals)`: the test and one
\* iteration of the body (restore, pick, collapse, apply_rules, save_into_file)
RetryStep ==
    /\ pc = "retry"
    /\ IF contains_invalid_tiles(state.possible_vals)
       THEN LET restored == [state EXCEPT !.possible_vals = old_state.possible_vals]
            IN  IF min_entropy_tiles(restored.possible_vals) = {}
                THEN /\ state' = restored
                     /\ pc' = "fix"
                ELSE \E next_tile_coord \in min_entropy_tiles(restored.possible_vals) :
                       LET cell == restored.possible_vals[next_tile_coord[1]][next_tile_coord[2]]
                       IN  IF cell = {}
                           THEN /\ state' = restored
                                /\ pc' = "panic"
                           ELSE \E next_tile_color \in cell :
                                  LET st == Collapsed(restored, next_tile_coord, next_tile_color)
                                  IN  /\ state' = IF apply_rules(st, rules) = Panic
                                                   THEN st
                                                   ELSE [st EXCEPT !.curr_file_index = @ + 1]
                                      /\ pc' = AfterApplyRules(st, rules, "retry")
       ELSE /\ pc' = "fix"
            /\ UNCHANGED state
    /\ result' = IF pc' = "panic" THEN Panic ELSE result
    /\ passes' = passes + 1
    /\ UNCHANGED <<img, rules, old_state, wave0>>

\* `while old_state.get_total_entropy() != state.get_total_entropy()`: the
\* test and one iteration of the body
FixStep ==
    /\ pc = "fix"
    /\ IF get_total_entropy(old_state) # get_total_entropy(state)
       THEN /\ old_state' = state
            /\ pc' = AfterApplyRules(state, rules, "fix")
       ELSE /\ pc' = "outer"
            /\ UNCHANGED old_state
    /\ result' = IF pc' = "panic" THEN Panic ELSE result
    /\ passes' = passes + 1
    /\ UNCHANGED <<img, rules, state, wave0>>

\* get_image_from_possible_vals(&state), the value generate_image returns
Decode ==
    /\ pc = "decode"
    /\ result' = get_image_from_possible_vals(state)
    /\ pc' = IF result' = Panic THEN "panic" ELSE "done"
    /\ passes' = passes + 1
    /\ UNCHANGED <<img, rules, state, old_state, wave0>>

NextGen == NewState \/ CollapseStep \/ ExitOuter \/ RetryStep \/ FixStep \/ Decode

SpecGen == InitGen /\ [][NextGen]_vars

-----------------------------------------------------------------------------
(* SpecLegacy: generate_image of main.rs.  Its State::new,                 *)
(* contains_invalid_tiles, get_total_entropy, get_lowest_entropy_tile and  *)
(* get_image_from_possible_vals read as those of state.rs do; wave0 holds  *)
(* the State as it was before the most recent collapse.                    *)

\* generate_image(w, h, rules) of main.rs is entered
InitLegacy ==
    /\ img = NoImage
    /\ rules \in LegacyRuleSets
    /\ \E w \in 1 .. MaxGenDim, h \in 1 .. MaxGenDim :
          state = MkState(<< >>, w, h, 0)
    /\ old_state = NoState
    /\ result = Pending
    /\ wave0 = NoState
    /\ passes = 0
    /\ pc = "l_new"

\* up to the `while` loop: State::new, save_into_file("initial"), and
\* `if next_tile_coord.is_none() { return None; }`
LegacyNewState ==
    /\ pc = "l_new"
    /\ state' = [StateNew(state.width, state.height, all_tiles_types(rules))
                    EXCEPT !.curr_file_index = 1]
    /\ IF min_entropy_tiles(state'.possible_vals) = {}
       THEN /\ result' = None
            /\ pc' = "done"
       ELSE /\ pc' = "l_outer"
            /\ UNCHANGED result
    /\ UNCHANGED <<img, rules, old_state, wave0, passes>>

\* the outer loop's test and, when it holds, `let mut old_state =
\* state.clone(); apply_rules(&mut state, rules);`
LegacyOuter ==
    /\ pc = "l_outer"
    /\ IF AnyUndetermined(state)
       THEN /\ old_state' = state
            /\ IF main_apply_rules(state, rules) = Panic
               THEN /\ pc' = "panic"
                    /\ result' = Panic
                    /\ UNCHANGED state
               ELSE /\ state' = main_apply_rules(state, rules).val
                    /\ pc' = "l_retry"
                    /\ UNCHANGED result
       ELSE /\ pc' = "l_decode"
            /\ UNCHANGED <<state, old_state, result>>
    /\ UNCHANGED <<img, rules, wave0, passes>>

\* `while contains_invalid_tiles(&state.possible_vals)` holds:
\* `state = old_state.clone();`
LegacyRestore ==
    /\ pc = "l_retry"
    /\ contains_invalid_tiles(state.possible_vals)
    /\ state' = old_state
    /\ pc' = "l_restored"
    /\ UNCHANGED <<img, rules, old_state, result, wave0, passes>>

\* `apply_rules(&mut state, rules);` of the retry loop
LegacyReapply ==
    /\ pc = "l_restored"
    /\ IF main_apply_rules(state, rules) = Panic
       THEN /\ pc' = "panic"
            /\ result' = Panic
            /\ UNCHANGED state
       ELSE /\ state' = main_apply_rules(state, rules).val
            /\ pc' = "l_retry"
            /\ UNCHANGED result
    /\ UNCHANGED <<img, rules, old_state, wave0, passes>>

\* the retry loop's test fails
LegacyRetryExit ==
    /\ pc = "l_retry"
    /\ ~contains_invalid_tiles(state.possible_vals)
    /\ pc' = "l_fix"
    /\ UNCHANGED <<img, rules, state, old_state, result, wave0, passes>>

\* `while old_state.get_total_entropy() != state.get_total_entropy()`: the
\* test and one iteration (snapshot, apply_rules, save_into_file)
LegacyFix ==
    /\ pc = "l_fix"
    /\ IF get_total_entropy(old_state) # get_total_entropy(state)
       THEN /\ old_state' = state
            /\ IF main_apply_rules(state, rules) = Panic
               THEN /\ pc' = "panic"
                    /\ result' = Panic
                    /\ UNCHANGED state
               ELSE /\ state' = [main_apply_rules(state, rules).val
                                    EXCEPT !.curr_file_index = @ + 1]
                    /\ pc' = "l_fix"
                    /\ UNCHANGED result
       ELSE /\ pc' = "l_select"
            /\ UNCHANGED <<state, old_state, result>>
    /\ UNCHANGED <<img, rules, wave0, passes>>

\* get_lowest_entropy_tile, `break` when it is None, else the choice of a
\* label of the cell (unwrap panics on an empty cell) and the collapse
LegacySelect ==
    /\ pc = "l_select"
    /\ IF min_entropy_tiles(state.possible_vals) = {}
       THEN /\ pc' = "l_decode"
            /\ UNCHANGED <<state, wave0, result>>
       ELSE \E next_tile_coord \in min_entropy_tiles(state.possible_vals) :
              LET cell == state.possible_vals[next_tile_coord[1]][next_tile_coord[2]]
              IN  IF cell = {}
                  THEN /\ pc' = "panic"
                       /\ result' = Panic
                       /\ UNCHANGED <<state, wave0>>
                  ELSE \E next_tile_color \in cell :
                         /\ state' = Collapsed(state, next_tile_coord, next_tile_color)
                         /\ wave0' = state
                         /\ pc' = "l_outer"
                         /\ UNCHANGED result
    /\ UNCHANGED <<img, rules, old_state, passes>>

\* the value generate_image of main.rs returns
LegacyDecode ==
    /\ pc = "l_decode"
    /\ result' = get_image_from_possible_vals(state)
    /\ pc' = IF result' = Panic THEN "panic" ELSE "done"
    /\ UNCHANGED <<img, rules, state, old_state, wave0, passes>>

NextLegacy ==
    \/ LegacyNewState \/ LegacyOuter \/ LegacyRestore \/ LegacyReapply
    \/ LegacyRetryExit \/ LegacyFix \/ LegacySelect \/ LegacyDecode

SpecLegacy == InitLegacy /\ [][NextLegacy]_vars

\* generate_image of main.rs runs on: the function is sequential and takes
\* each of its steps as soon as it can
SpecLegacyFair == SpecLegacy /\ WF_vars(NextLegacy)

-----------------------------------------------------------------------------
(* SpecWave: contains_invalid_tiles and get_lowest_entropy_tile of         *)
(* state.rs and get_possibilities_adjacent_pixels of rules.rs, called on a *)
(* wave as their tests call them                                           *)

InitWave ==
    /\ img = NoImage
    /\ rules = {}
    /\ state \in PropStates \cup ChainStates \cup {NoState}
    /\ old_state = NoState
    /\ result = Pending
    /\ wave0 = state
    /\ passes = 0
    /\ pc = "wave"

\* let res = contains_invalid_tiles(&possible_vals)
ContainsInvalidTiles ==
    /\ pc = "wave"
    /\ result' = Some(contains_invalid_tiles(state.possible_vals))
    /\ pc' = "invalid_checked"
    /\ UNCHANGED <<img, rules, state, old_state, wave0, passes>>

\* let res = get_lowest_entropy_tile(&possible_vals):
\* min_entropy_tiles.choose(&mut rand::thread_rng()).cloned()
GetLowestEntropyTile ==
    /\ pc = "wave"
    /\ IF min_entropy_tiles(state.possible_vals) = {}
       THEN result' = None
       ELSE \E c \in min_entropy_tiles(state.possible_vals) : result' = Some(c)
    /\ pc' = "tile_chosen"
    /\ UNCHANGED <<img, rules, state, old_state, wave0, passes>>

\* let (curr, up, down, left, right) =
\*     get_possibilities_adjacent_pixels(&possible_vals, x, y)
\* at a cell of the wave, or at (0, 0) of the wave without columns
GetPossibilitiesAdjacentPixels ==
    /\ pc = "wave"
    /\ LET inner == state.possible_vals
       IN  \E c \in IF size(inner) = None THEN {<<0, 0>>} ELSE Cells(inner) :
             result' = IF size(inner) # None /\ AdjacentPanics(inner, c[1], c[2])
                       THEN Panic
                       ELSE Some([at |-> c,
                                  adj |-> get_possibilities_adjacent_pixels(
                                              inner, c[1], c[2])])
    /\ pc' = "adjacent_read"
    /\ UNCHANGED <<img, rules, state, old_state, wave0, passes>>

NextWave ==
    ContainsInvalidTiles \/ GetLowestEntropyTile \/ GetPossibilitiesAdjacentPixels

SpecWave == InitWave /\ [][NextWave]_vars

-----------------------------------------------------------------------------
(* SpecOrder: one call of apply_rules (rules.rs) under every iteration     *)
(* order of the rule set and of the possibilities                          *)

InitOrder ==
    /\ img = NoImage
    /\ rules \in OrderRuleSets
    /\ state \in OrderStates
    /\ old_state = NoState
    /\ result = Pending
    /\ wave0 = state
    /\ passes = 0
    /\ pc = "unordered"

\* let new_state = apply_rules(&state, &rules), the HashSets iterating in
\* some order
ApplyRulesInOrder ==
    /\ pc = "unordered"
    /\ \E ruleSeq \in Orders(rules), tileSeq \in Orders(PropTiles) :
          result' = apply_rules_in_order(state, ruleSeq, tileSeq)
    /\ pc' = "ordered"
    /\ UNCHANGED <<img, rules, state, old_state, wave0, passes>>

NextOrder == ApplyRulesInOrder

SpecOrder == InitOrder /\ [][NextOrder]_vars

-----------------------------------------------------------------------------
(* The six together                                                        *)

Init == InitExtract \/ InitProp \/ InitGen \/ InitLegacy \/ InitWave \/ InitOrder

Next == NextExtract \/ NextProp \/ NextGen \/ NextLegacy \/ NextWave \/ NextOrder

Spec == Init /\ [][Next]_vars

-----------------------------------------------------------------------------
(* Properties.  Helpers first.                                             *)

\* the neighbour of cell c in direction d: c + offset(d)
Neighbour(c, d) == <<c[1] + offset(d)[1], c[2] + offset(d)[2]>>

\* the label an image holds at c
LabelAt(image, c) == TileFromPixel(get_pixel(image, c[1], c[2]))

\* the cells of a State's width x height grid
Grid(st) == (0 .. st.width - 1) \X (0 .. st.height - 1)

\* the labels of the alphabet that are the curr_tile of no rule
NoSubjectLabels(rs) == all_tiles_types(rs) \ {r.curr_tile : r \in rs}

\* generate_image has returned (pc = "done") or aborted (pc = "panic")
GenEnded == pc \in {"done", "panic"}

(***************************************************************************)
(* generate_image (state.rs), under SpecGen                                *)
(***************************************************************************)

\* C1 (as claimed): whenever generate_image returns Some(grid), every cell c
\* and every direction d with c + offset(d) in bounds satisfy
\* (label of c, label of the neighbour, d) \in rules.
C1_ResultLocallyConsistent ==
    (pc = "done" /\ result.tag = "Some") =>
        \A c \in coordinates(result.val), d \in Direction :
            Neighbour(c, d) \in coordinates(result.val) =>
                Rule(LabelAt(result.val, c), LabelAt(result.val, Neighbour(c, d)), d)
                    \in rules

\* C2 (as claimed): for every rule set, width >= 1 and height >= 1, the run
\* never aborts, and when it has returned the value is None or a grid with
\* one label at each of the width * height cells.
C2_ReturnsGridOrNone ==
    /\ pc # "panic"
    /\ pc = "done" =>
          \/ result = None
          \/ /\ result.tag = "Some"
             /\ DOMAIN result.val.pixels = Grid(state)
             /\ \A c \in Grid(state) : LabelAt(result.val, c) \in Tile

\* C3 (as claimed): with only the four Red-Red rules, for every width >= 1
\* and height >= 1 the run ends by returning Some(grid) with every cell Red.
C3_ScenarioBAllRed ==
    (rules = RulesRedUDLR /\ GenEnded) =>
        /\ pc = "done"
        /\ result.tag = "Some"
        /\ \A c \in Grid(state) : LabelAt(result.val, c) = "Red"

C5_SubjectCellHasNeighbour ==
    pc = "extracted" =>
        \A r \in rules :
            \E c \in coordinates(img) :
                /\ Neighbour(c, r.direction) \in coordinates(img)
                /\ LabelAt(img, c) = r.curr_tile
                /\ LabelAt(img, Neighbour(c, r.direction)) = r.adj_tile

\* C5 (amended): every extracted rule (curr_tile = s, adj_tile = n,
\* direction = d) has a sample cell with label n whose neighbour in direction
\* d is in bounds and has label s (curr_tile is the neighbour's label).
C5_ExtractionSound ==
    pc = "extracted" =>
        \A r \in rules :
            \E c \in coordinates(img) :
                /\ Neighbour(c, r.direction) \in coordinates(img)
                /\ LabelAt(img, c) = r.adj_tile
                /\ LabelAt(img, Neighbour(c, r.direction)) = r.curr_tile

\* C5 witness: rules were extracted, one of them between two different labels.
C5_Witness ==
    /\ pc = "extracted"
    /\ \E r \in rules : r.curr_tile # r.adj_tile

\* C6 (as claimed): for every sample cell c and direction d with the
\* neighbour in bounds, (label(c), label(neighbour), d) is extracted.
C6_SubjectCellRulePresent ==
    pc = "extracted" =>
        \A c \in coordinates(img), d \in Direction :
            Neighbour(c, d) \in coordinates(img) =>
                Rule(LabelAt(img, c), LabelAt(img, Neighbour(c, d)), d) \in rules

\* C6 (amended): for every sample cell c and direction d with the neighbour
\* in bounds, (curr_tile = label(neighbour), adj_tile = label(c), d) is
\* extracted.
C6_ExtractionComplete ==
    pc = "extracted" =>
        \A c \in coordinates(img), d \in Direction :
            Neighbour(c, d) \in coordinates(img) =>
                Rule(LabelAt(img, Neighbour(c, d)), LabelAt(img, c), d) \in rules

\* C6 witness: rules were extracted from a sample with a cell that has
\* neighbours of another label both below and to the right.
C6_Witness ==
    /\ pc = "extracted"
    /\ \E c \in coordinates(img) :
          /\ Neighbour(c, "Down") \in coordinates(img)
          /\ Neighbour(c, "Right") \in coordinates(img)
          /\ LabelAt(img, Neighbour(c, "Down")) # LabelAt(img, c)
          /\ LabelAt(img, Neighbour(c, "Right")) # LabelAt(img, c)

\* C7: from the 2x2 sample (0,0)=Red, (1,0)=Blue, (0,1)=Red, (1,1)=Red
\* extract_rules returns exactly the 8 rules of test_extract_rules.
C7_ScenarioAExactRules ==
    (img = ScenarioAImage /\ pc = "extracted") => rules = RulesScenarioA

\* C7 witness: extract_rules has returned for that sample, with 8 rules.
C7_Witness ==
    /\ img = ScenarioAImage
    /\ pc = "extracted"
    /\ Cardinality(rules) = 8

(***************************************************************************)
(* apply_rules (rules.rs), under SpecProp                                  *)
(***************************************************************************)

\* apply_rules has returned Some(new state) for the wave in `state`
PassReturnedSome == pc = "applied" /\ result.tag = "Some"

\* the labels of cell c that pass every rule of theirs whose direction has a
\* neighbour in bounds, read from the input wave
Surviving(st, rs, c) ==
    {l \in st.possible_vals[c[1]][c[2]] :
        \A r \in rs :
            (r.curr_tile = l /\ Neighbour(c, r.direction) \in Grid(st)) =>
                r.adj_tile \in st.possible_vals[Neighbour(c, r.direction)[1]]
                                               [Neighbour(c, r.direction)[2]]}

C9_Monotone ==
    PassReturnedSome =>
        \A c \in Cells(state.possible_vals) :
            /\ result.val.possible_vals[c[1]][c[2]] \subseteq state.possible_vals[c[1]][c[2]]
            /\ state.possible_vals[c[1]][c[2]] \subseteq wave0.possible_vals[c[1]][c[2]]

\* C9 witness: a second or later pass returned Some, the wave having shrunk
\* in an earlier pass and shrinking again in this one.
C9_Witness ==
    /\ PassReturnedSome
    /\ passes >= 1
    /\ state # wave0
    /\ result.val # state

\* C10: a cell with exactly one label keeps that set in the grid apply_rules
\* computes, and so in the state it returns, whatever its neighbours hold.
C10_CollapsedPreserved ==
    (pc = "applied" /\ result # Panic) =>
        \A c \in Grid(state) :
            Cardinality(state.possible_vals[c[1]][c[2]]) = 1 =>
                /\ NewPossibilities(state, rules)[c[1]][c[2]]
                      = state.possible_vals[c[1]][c[2]]
                /\ result.tag = "Some" =>
                      result.val.possible_vals[c[1]][c[2]]
                          = state.possible_vals[c[1]][c[2]]

\* C10 witness: a pass returned Some although a collapsed cell's label fails
\* a rule against a neighbour, and the cell is unchanged.
C10_Witness ==
    /\ PassReturnedSome
    /\ \E c \in Grid(state) :
          /\ Cardinality(state.possible_vals[c[1]][c[2]]) = 1
          /\ Surviving(state, rules, c) = {}
          /\ result.val.possible_vals[c[1]][c[2]] = state.possible_vals[c[1]][c[2]]

\* the number of labels a wave holds beyond one per cell
SpareLabels(st) == get_total_entropy(st) - Cardinality(Cells(st.possible_vals))

\* C11 (as claimed): once width*height passes have been made, one further
\* pass leaves the wave unchanged.
C11_FixedWithinCells ==
    (PassReturnedSome /\ passes >= state.width * state.height) =>
        result.val = state

\* C11 (amended): iterating apply_rules while it returns Some, once as many
\* passes have been made as the first wave held labels beyond one per cell,
\* one further pass leaves the wave unchanged.
C11_FixedWithinSpareLabels ==
    (PassReturnedSome /\ passes >= SpareLabels(wave0)) =>
        result.val = state

\* C11 witness: a wave of two cells that changed in each of three passes and
\* that the fourth pass leaves unchanged.
C11_Witness ==
    /\ PassReturnedSome
    /\ state.width * state.height = 2
    /\ passes = 3
    /\ SpareLabels(wave0) = 3
    /\ SpareLabels(state) = 0
    /\ result.val = state

\* the cells of st's grid that hold exactly {Red}
CollapsedToRed(st) ==
    {c \in Grid(st) : st.possible_vals[c[1]][c[2]] = {"Red"}}

\* a square grid indexed [x][y] in which one cell is collapsed to Red and
\* every other cell holds {Red, Green}
OneRedCollapsed(st) ==
    /\ st.width = st.height
    /\ Cells(st.possible_vals) = Grid(st)
    /\ Cardinality(CollapsedToRed(st)) = 1
    /\ \A c \in Grid(st) \ CollapsedToRed(st) :
          st.possible_vals[c[1]][c[2]] = {"Red", "Green"}

\* C12 (as claimed): with only the four Red-Red rules, on a square grid with
\* one cell collapsed to Red and all others holding {Red, Green}, a pass
\* returns Some wave where the in-bounds 4-neighbours of the collapsed cell
\* hold {Red} and every other cell is unchanged.
C12_NeighboursNarrowedToRed ==
    (pc = "applied" /\ rules = RulesRedUDLR /\ OneRedCollapsed(state)) =>
        /\ result.tag = "Some"
        /\ \A c \in Grid(state) :
              result.val.possible_vals[c[1]][c[2]] =
                  IF \E d \in Direction : Neighbour(c, d) \in CollapsedToRed(state)
                  THEN {"Red"}
                  ELSE state.possible_vals[c[1]][c[2]]

(***************************************************************************)
(* get_image_from_possible_vals, contains_invalid_tiles, State::new         *)
(* (state.rs), under SpecGen                                                *)
(***************************************************************************)

\* every cell of the wave holds exactly one label
AllOneLabel(st) ==
    \A c \in Cells(st.possible_vals) :
        Cardinality(st.possible_vals[c[1]][c[2]]) = 1

\* the grid image holds, at each cell of the wave, the pixel of the cell's
\* single label
DecodesWave(image, st) ==
    /\ image.width * image.height = Cardinality(Cells(st.possible_vals))
    /\ \A c \in Cells(st.possible_vals) :
          /\ c \in coordinates(image)
          /\ st.possible_vals[c[1]][c[2]] = {LabelAt(image, c)}

\* C14 (as claimed): for the wave generate_image hands to the decoder,
\* get_image_from_possible_vals returns Some(grid) exactly when every cell
\* holds one label, that grid holds each cell's label, and it returns None
\* when some cell is empty or undetermined.
C14_DecoderCorrect ==
    pc = "decode" =>
        LET r == get_image_from_possible_vals(state)
        IN  /\ r.tag = "Some" <=> AllOneLabel(state)
            /\ r.tag = "Some" => DecodesWave(r.val, state)
            /\ ~AllOneLabel(state) => r = None

\* the sizes of the sets the wave holds, row by row
Sizes(inner) ==
    [i \in DOMAIN inner |-> [j \in DOMAIN inner[i] |-> Cardinality(inner[i][j])]]

\* C15: contains_invalid_tiles returns true exactly when the set of at
\* least one cell of the wave has no label.
C15_InvalidIffEmptyCell ==
    pc = "invalid_checked" =>
        (result.val <=>
            \E i \in DOMAIN Sizes(state.possible_vals) :
                \E j \in DOMAIN Sizes(state.possible_vals)[i] :
                    Sizes(state.possible_vals)[i][j] = 0)

\* C15 witness: true was returned for a wave whose only empty cell lies
\* in its second row, among cells that hold labels.
C15_Witness ==
    /\ pc = "invalid_checked"
    /\ result.val
    /\ \E c \in Cells(state.possible_vals) :
          /\ c[1] = 1
          /\ \A d \in Cells(state.possible_vals) :
                (state.possible_vals[d[1]][d[2]] = {}) <=> (d = c)

\* generate_image has just built its wave: State::new has returned and no
\* collapse was made yet
WaveJustBuilt == pc = "outer" /\ old_state = NoState

\* C16: the wave generate_image builds through State::new has
\* width * height cells, each holding every label that is the curr_tile or
\* the adj_tile of some rule, and no other label.
C16_WaveConstruction ==
    WaveJustBuilt =>
        /\ Cardinality(Cells(state.possible_vals)) = state.width * state.height
        /\ \A c \in Cells(state.possible_vals) :
              state.possible_vals[c[1]][c[2]] =
                  {l \in Tile : \E r \in rules : l = r.curr_tile \/ l = r.adj_tile}

\* C16 witness: a wave of two cells just built for a rule set in which
\* Green is an adj_tile only; both cells hold Red and Green.
C16_Witness ==
    /\ WaveJustBuilt
    /\ rules = RulesGreenNoSubject
    /\ state.width * state.height = 2
    /\ \A c \in Cells(state.possible_vals) :
          state.possible_vals[c[1]][c[2]] = {"Red", "Green"}

(***************************************************************************)
(* From<Pixel> for Tile (enums.rs) in extract_rules, under SpecExtract      *)
(***************************************************************************)

\* the cells of the sample whose pixel is none of pure red, green, blue
MalformedCells(image) ==
    {c \in coordinates(image) :
        get_pixel(image, c[1], c[2]) \notin
            {Pixel(255, 0, 0), Pixel(0, 255, 0), Pixel(0, 0, 255)}}

\* C17: a pixel that is not pure red, green or blue converts to no label:
\* extract_rules on a sample of two or more cells, one of them malformed,
\* panics, and whenever extract_rules returns a rule set no rule was made
\* from a malformed cell.
C17_MalformedCellFatal ==
    pc \in {"extracted", "panic"} =>
        /\ \A c \in MalformedCells(img) : LabelAt(img, c) \notin Tile
        /\ (MalformedCells(img) # {} /\ img.width * img.height >= 2) =>
              result = Panic
        /\ result.tag = "Some" =>
              (MalformedCells(img) = {} \/ result.val = {})

\* C17 witness: extract_rules panicked on a 2x2 sample with exactly one
\* malformed cell.
C17_Witness ==
    /\ pc = "panic"
    /\ result = Panic
    /\ img.width = 2 /\ img.height = 2
    /\ Cardinality(MalformedCells(img)) = 1

(***************************************************************************)
(* generate_image (state.rs) after a collapse, under SpecGen                *)
(***************************************************************************)

\* a collapse has been committed and the driver is about to select the next
\* cell, or to decode
AboutToSelectAfterCollapse ==
    pc \in {"outer", "decode"} /\ old_state # NoState

\* C18 (as claimed): each time the driver is about to select the next cell
\* or to decode after a collapse, one more pass of apply_rules would change
\* no cell of the wave it holds.
C18_FixedPointAfterCollapse ==
    AboutToSelectAfterCollapse => apply_rules(state, rules) = Some(state)

\* C19 (as claimed): when the pass right after a collapse gives None, the
\* driver does not go on with the collapsed wave: it never leaves the retry
\* loop holding a wave whose pass gives None.
C19_ContradictionRestarts ==
    (pc \in {"fix", "outer"} /\ old_state # NoState) =>
        apply_rules(state, rules) # None

(***************************************************************************)
(* get_lowest_entropy_tile (state.rs), under SpecWave                       *)
(***************************************************************************)

\* the cells of the wave whose set holds more than one label
Undetermined(inner) ==
    {c \in Cells(inner) : Cardinality(inner[c[1]][c[2]]) > 1}

\* C20 (as claimed): get_lowest_entropy_tile returns a cell whose set size
\* is greater than 1 and least among the cells of size greater than 1, and
\* it returns None exactly when no cell has size greater than 1.
C20_LowestEntropyUndetermined ==
    pc = "tile_chosen" =>
        LET inner == state.possible_vals
        IN  /\ result.tag = "Some" =>
                  /\ result.val \in Undetermined(inner)
                  /\ \A d \in Undetermined(inner) :
                        Cardinality(inner[result.val[1]][result.val[2]])
                            <= Cardinality(inner[d[1]][d[2]])
            /\ result = None <=> Undetermined(inner) = {}

(***************************************************************************)
(* The collapse and the outer loop of generate_image (state.rs), under      *)
(* SpecGen                                                                  *)
(***************************************************************************)

\* the collapse of lines 277-290 has just been made: old_state is the
\* snapshot taken before it, state the wave after it
JustCollapsed == pc = "retry"

\* C21: a collapse replaces the set of one cell by a singleton whose label
\* was in that cell's set before the collapse, and leaves the set of every
\* other cell as it was.
C21_CollapseFrame ==
    JustCollapsed =>
        /\ Cells(state.possible_vals) = Cells(old_state.possible_vals)
        /\ \E c \in Cells(old_state.possible_vals) :
              /\ \E l \in old_state.possible_vals[c[1]][c[2]] :
                    state.possible_vals[c[1]][c[2]] = {l}
              /\ \A d \in Cells(old_state.possible_vals) \ {c} :
                    state.possible_vals[d[1]][d[2]] = old_state.possible_vals[d[1]][d[2]]

\* C21 witness: on a 2x2 grid a second cell has just been collapsed, the
\* first one and the two cells left keeping their sets.
C21_Witness ==
    /\ JustCollapsed
    /\ state.width = 2 /\ state.height = 2
    /\ state # old_state
    /\ Cardinality(Undetermined(old_state.possible_vals)) = 3
    /\ Cardinality(Undetermined(state.possible_vals)) = 2

\* the number of cells whose set holds more than one label
UndeterminedCount(st) == Cardinality(Undetermined(st.possible_vals))

\* how far a position of generate_image is from the return, within one
\* iteration of the outer loop
Position ==
    CASE pc = "retry" -> 6
      [] pc = "fix" /\ get_total_entropy(old_state) # get_total_entropy(state) -> 5
      [] pc = "fix" /\ get_total_entropy(old_state) = get_total_entropy(state) -> 4
      [] pc = "outer" -> 3
      [] pc = "decode" -> 2
      [] pc = "done" -> 1
      [] OTHER -> 0

\* a natural number that bounds the steps left: undetermined cells first,
\* position second
Measure == 8 * UndeterminedCount(state) + Position

\* C22: on a square grid, once the wave is built, the collapse of every
\* outer-loop iteration strictly lowers the number of undetermined cells, the
\* rest of the iteration does not raise it, no step aborts, and the steps
\* taken so far plus Measure never exceed 8 * width * height + 3, the
\* Measure of the wave just built: every run ends by returning within that
\* many steps.
C22_ProgressAndTermination ==
    (state.width = state.height /\ pc # "new") =>
        /\ JustCollapsed =>
              UndeterminedCount(state) < UndeterminedCount(old_state)
        /\ (pc \in {"fix", "outer"} /\ old_state # NoState) =>
              UndeterminedCount(state) <= UndeterminedCount(old_state)
        /\ pc # "panic"
        /\ passes + Measure <= 8 * state.width * state.height + 3

\* C22 witness: a run on a 2x2 grid over two labels has returned, every
\* cell collapsed in an iteration of its own.
C22_Witness ==
    /\ pc = "done"
    /\ state.width = 2 /\ state.height = 2
    /\ Cardinality(all_tiles_types(rules)) = 2
    /\ UndeterminedCount(state) = 0
    /\ passes = 18

(***************************************************************************)
(* generate_image (main.rs), under SpecLegacy and SpecLegacyFair            *)
(***************************************************************************)

\* C23 (as claimed): where the driver of main.rs selects a cell and picks a
\* label for it, no cell of the wave is empty.
C23_NoEmptyCellAtSelection ==
    pc = "l_select" => ~contains_invalid_tiles(state.possible_vals)

\* C24 (as claimed): the wave the retry loop restores is the wave as it was
\* before the most recent collapse, so the cell collapsed last holds again
\* the set it had before.
C24_RestoresPreCollapseWave ==
    pc = "l_restored" => state.possible_vals = wave0.possible_vals

\* C25 (as claimed): whenever the retry loop is entered with a contradiction
\* it is eventually left.
C25_RetryLoopExits ==
    (pc = "l_retry" /\ contains_invalid_tiles(state.possible_vals))
        ~> (pc \notin {"l_retry", "l_restored"})

\* C26 (as claimed): when the rule set mentions a single label, so that the
\* wave is built collapsed, the driver returns Some(grid) filled with that
\* label.
C26_CollapsedStartReturnsGrid ==
    (pc = "done" /\ Cardinality(all_tiles_types(rules)) = 1) =>
        /\ result.tag = "Some"
        /\ \A c \in coordinates(result.val) :
              {LabelAt(result.val, c)} = all_tiles_types(rules)

\* two States of the same width, height, number of rows and cells per row
SameShape(a, b) ==
    /\ a.width = b.width
    /\ a.height = b.height
    /\ DOMAIN a.possible_vals = DOMAIN b.possible_vals
    /\ \A i \in DOMAIN a.possible_vals :
          DOMAIN a.possible_vals[i] = DOMAIN b.possible_vals[i]

\* C29: once State::new has built the wave, the wave and the snapshot
\* generate_image (state.rs) holds have the width, the height, the number of
\* rows and the number of cells per row of the wave as built, through every
\* collapse, propagation and restore.
C29_FixedDimensions ==
    pc # "new" =>
        /\ SameShape(state, wave0)
        /\ old_state # NoState => SameShape(old_state, wave0)

\* C29 witness: generate_image has returned a 2 x 2 grid, every cell of the
\* wave having changed since it was built.
C29_Witness ==
    /\ pc = "done"
    /\ result.tag = "Some"
    /\ state.width = 2 /\ state.height = 2
    /\ \A c \in Cells(state.possible_vals) :
          state.possible_vals[c[1]][c[2]] # wave0.possible_vals[c[1]][c[2]]

(***************************************************************************)
(* apply_rules (rules.rs) and apply_rules (main.rs), under SpecProp         *)
(***************************************************************************)

\* f is neither c nor one of the four neighbours of c
Far(c, f) == f # c /\ \A d \in Direction : Neighbour(c, d) # f

\* the cells of the grid equal in two waves at c and at c's neighbours
SameAround(st, other, c) ==
    \A e \in Grid(st) :
        ~Far(c, e) => st.possible_vals[e[1]][e[2]] = other.possible_vals[e[1]][e[2]]

\* C27: the set a pass gives a cell is the set the pass computes for that
\* cell on any wave that differs from the input only in a cell further than
\* one step away; and on the second pass a cell changes only if it or one of
\* its neighbours was changed by the first pass.
C27_OneHopLocality ==
    PassReturnedSome =>
        \A c \in Grid(state) :
            /\ \A f \in Grid(state), S \in SUBSET Tile :
                   Far(c, f) =>
                       NewTilePossibilities(
                           [state.possible_vals EXCEPT ![f[1]][f[2]] = S],
                           rules, c[1], c[2])
                       = result.val.possible_vals[c[1]][c[2]]
            /\ (passes = 1 /\ SameAround(state, wave0, c)) =>
                   result.val.possible_vals[c[1]][c[2]]
                   = state.possible_vals[c[1]][c[2]]

\* C27 witness: the second pass on a wave of three cells in a row narrows the
\* cell two steps from the collapsed one, which the first pass left alone
\* while it narrowed the cell in between.
C27_Witness ==
    /\ PassReturnedSome
    /\ passes = 1
    /\ state.width = 3 /\ state.height = 1
    /\ Cardinality(wave0.possible_vals[0][0]) = 1
    /\ state.possible_vals[1][0] # wave0.possible_vals[1][0]
    /\ state.possible_vals[2][0] = wave0.possible_vals[2][0]
    /\ result.val.possible_vals[2][0] # state.possible_vals[2][0]

\* C28: after a call of apply_rules, whatever it returned, the State given
\* is the State before the call: after the first call it is still the wave
\* first given, and after every call the value returned is the one
\* apply_rules computes from the State as it is now.
C28_InputUntouched ==
    pc = "applied" =>
        /\ passes = 0 => state = wave0
        /\ result = apply_rules(state, rules)

\* C28 witness: the first call returned None on a wave without an empty cell,
\* a pass that emptied a cell of its own grid.
C28_Witness ==
    /\ pc = "applied"
    /\ passes = 0
    /\ result = None
    /\ ~contains_invalid_tiles(state.possible_vals)

\* C30: on every square wave neither propagator panics and both compute the
\* same possibility grid; apply_rules of rules.rs returns None when that grid
\* has an empty cell and otherwise the State holding it, which is the State
\* apply_rules of main.rs leaves in place.
C30_PropagatorsAgree ==
    (pc = "applied" /\ state.width = state.height) =>
        /\ result # Panic
        /\ main_apply_rules(state, rules) # Panic
        /\ main_NewPossibilities(state, rules) = NewPossibilities(state, rules)
        /\ IF contains_invalid_tiles(main_NewPossibilities(state, rules))
           THEN result = None
           ELSE result = main_apply_rules(state, rules)

\* C30 witness: on a 2 x 2 wave the pass of rules.rs returned None, the grid
\* the pass of main.rs leaves in place having a cell emptied of its two
\* labels.
C30_Witness ==
    /\ pc = "applied"
    /\ state.width = 2 /\ state.height = 2
    /\ result = None
    /\ ~contains_invalid_tiles(state.possible_vals)
    /\ \E c \in Grid(state) :
          /\ Cardinality(state.possible_vals[c[1]][c[2]]) = 2
          /\ main_apply_rules(state, rules).val.possible_vals[c[1]][c[2]] = {}

(***************************************************************************)
(* generate_image (state.rs), under SpecGen: the wave never holds an empty *)
(* cell                                                                    *)
(***************************************************************************)

\* C31: when the rule set mentions at least one label, neither the wave nor
\* the snapshot of generate_image (state.rs) holds an empty cell once the
\* wave is built; in particular the test of the retry loop is false each
\* time it is made, so the loop's body is never executed.
C31_NoEmptyCellInDriver ==
    (pc # "new" /\ all_tiles_types(rules) # {}) =>
        /\ ~contains_invalid_tiles(state.possible_vals)
        /\ old_state # NoState => ~contains_invalid_tiles(old_state.possible_vals)

\* C31 witness: the driver is at the test of the retry loop after a collapse
\* on which apply_rules returned None, and the wave holds no empty cell.
C31_Witness ==
    /\ pc = "retry"
    /\ all_tiles_types(rules) # {}
    /\ apply_rules(state, rules) = None
    /\ ~contains_invalid_tiles(state.possible_vals)

\* C36: with the empty rule set and a square grid, generate_image (state.rs)
\* never aborts; once the wave is built every cell is empty, the outer loop
\* is not entered (no snapshot is taken, no cell selected or collapsed), and
\* the value returned is None.
C36_EmptyRuleSetReturnsNone ==
    (rules = {} /\ state.width = state.height /\ pc # "new") =>
        /\ pc \in {"outer", "decode", "done"}
        /\ \A c \in Cells(state.possible_vals) : state.possible_vals[c[1]][c[2]] = {}
        /\ state.possible_vals = wave0.possible_vals
        /\ old_state = NoState
        /\ pc = "done" => result = None

\* C36 witness: generate_image(2, 2, {}) has returned None.
C36_Witness ==
    /\ rules = {}
    /\ state.width = 2 /\ state.height = 2
    /\ Cardinality(Cells(state.possible_vals)) = 4
    /\ pc = "done"
    /\ result = None

\* C38 (as claimed): once State::new(w, h, alphabet) has built the wave, in
\* every state generate_image (state.rs) reaches possible_vals.size() is
\* Some((width, height)) and get(x, y) is a valid access for every
\* x < width and y < height.
C38_LayoutAgreesWithDimensions ==
    pc # "new" =>
        /\ size(state.possible_vals) = Some(<<state.width, state.height>>)
        /\ \A x \in 0 .. state.width - 1, y \in 0 .. state.height - 1 :
              InRange(state.possible_vals, x, y)

(***************************************************************************)
(* apply_rules (rules.rs), under SpecProp: the value returned              *)
(***************************************************************************)

\* the set a pass leaves at c, written from the rules: a cell of one label
\* keeps it, any other keeps its surviving labels
SetAfterPass(st, rs, c) ==
    IF Cardinality(st.possible_vals[c[1]][c[2]]) = 1
    THEN st.possible_vals[c[1]][c[2]]
    ELSE Surviving(st, rs, c)

\* C32: apply_rules returns None exactly when the pass leaves some cell of
\* the grid empty, a cell that was empty in the input included; a State
\* returned as Some holds no empty cell.
C32_NoneIffEmptyCell ==
    (pc = "applied" /\ result # Panic) =>
        /\ result = None <=> \E c \in Grid(state) : SetAfterPass(state, rules, c) = {}
        /\ result.tag = "Some" =>
              \A c \in Cells(result.val.possible_vals) :
                  result.val.possible_vals[c[1]][c[2]] # {}

\* C32 witness: a pass returned None on a wave of four cells because of a
\* cell that was empty in the input, every other cell being left with a
\* label.
C32_Witness ==
    /\ pc = "applied"
    /\ result = None
    /\ Cardinality(Grid(state)) = 4
    /\ \E c \in Grid(state) :
          /\ state.possible_vals[c[1]][c[2]] = {}
          /\ \A d \in Grid(state) \ {c} : SetAfterPass(state, rules, d) # {}

(***************************************************************************)
(* extract_rules (rules.rs), under SpecExtract: opposite directions        *)
(***************************************************************************)

\* the direction facing d
Opposite(d) ==
    CASE d = "Up"    -> "Down"
      [] d = "Down"  -> "Up"
      [] d = "Left"  -> "Right"
      [] d = "Right" -> "Left"

\* C33: the rule set extracted from any sample holds (a, b, d) if and only
\* if it holds (b, a, the direction facing d): Up with Down, Left with
\* Right.
C33_OppositeDirectionSymmetry ==
    pc = "extracted" =>
        \A r \in rules :
            Rule(r.adj_tile, r.curr_tile, Opposite(r.direction)) \in rules

\* C33 witness: rules were extracted, among them an Up rule and a Left rule
\* that each join two different labels.
C33_Witness ==
    /\ pc = "extracted"
    /\ \E r \in rules : r.direction = "Up" /\ r.curr_tile # r.adj_tile
    /\ \E r \in rules : r.direction = "Left" /\ r.curr_tile # r.adj_tile

(***************************************************************************)
(* get_possibilities_adjacent_pixels (rules.rs), under SpecWave            *)
(***************************************************************************)

\* the field of the tuple returned that belongs to direction d
Side(adj, d) ==
    CASE d = "Up"    -> adj.up
      [] d = "Down"  -> adj.down
      [] d = "Left"  -> adj.left
      [] d = "Right" -> adj.right

\* C37: on a wave with at least one column, the lookup at a cell (x, y)
\* returns without a panic the cell's own set and, for each direction d, the
\* set of the cell at (x, y) + offset(d) when that cell is in the grid and
\* None when it is not; on a wave without columns it returns None five
\* times.
C37_NeighbourLookup ==
    pc = "adjacent_read" =>
        /\ result.tag = "Some"
        /\ LET inner == state.possible_vals
               c == result.val.at
               adj == result.val.adj
           IN  IF DOMAIN inner = {}
               THEN /\ adj.curr = None
                    /\ \A d \in Direction : Side(adj, d) = None
               ELSE /\ adj.curr = Some(inner[c[1]][c[2]])
                    /\ \A d \in Direction :
                          Side(adj, d) =
                              IF Neighbour(c, d) \in Cells(inner)
                              THEN Some(inner[Neighbour(c, d)[1]][Neighbour(c, d)[2]])
                              ELSE None

\* C37 witness: the lookup was made at the middle cell of a row of three
\* cells with three different sets: Left and Right are Some, Up and Down are
\* None.
C37_Witness ==
    /\ pc = "adjacent_read"
    /\ result.tag = "Some"
    /\ DOMAIN state.possible_vals = 0 .. 2
    /\ result.val.at = <<1, 0>>
    /\ result.val.adj.left # result.val.adj.right
    /\ result.val.adj.left # None /\ result.val.adj.right # None
    /\ result.val.adj.curr # result.val.adj.left
    /\ result.val.adj.curr # result.val.adj.right
    /\ result.val.adj.up = None /\ result.val.adj.down = None

(***************************************************************************)
(* generate_image (main.rs), under SpecLegacy: the entropy loop            *)
(***************************************************************************)

\* C34: at the test of the entropy loop of generate_image (main.rs) the two
\* total entropies are equal exactly when the last pass changed no cell's
\* set, and whenever a cell is selected for collapse a further pass of
\* apply_rules (main.rs) would leave the wave as it is.
C34_EntropyTestIsFixedPoint ==
    /\ pc = "l_fix" =>
          (get_total_entropy(old_state) = get_total_entropy(state)
              <=> old_state.possible_vals = state.possible_vals)
    /\ pc = "l_select" =>
          /\ ~main_ApplyRulesPanics(state, rules)
          /\ main_NewPossibilities(state, rules) = state.possible_vals

\* C34 witness: a cell is about to be selected after the entropy loop ran
\* its body, on a wave an earlier collapse and its passes have narrowed and
\* that still has an undetermined cell.
C34_Witness ==
    /\ pc = "l_select"
    /\ state.curr_file_index >= 2
    /\ AnyUndetermined(state)
    /\ \E c \in Cells(state.possible_vals) :
          Cardinality(state.possible_vals[c[1]][c[2]]) = 1

(***************************************************************************)
(* apply_rules (rules.rs), under SpecOrder: iteration orders               *)
(***************************************************************************)

\* C35: the value a call of apply_rules returned under one iteration order
\* of the rule set and of the possibilities is the value it returns under
\* every other order, on the same wave and rule set.
C35_OrderIndependent ==
    pc = "ordered" =>
        \A ruleSeq \in Orders(rules), tileSeq \in Orders(PropTiles) :
            apply_rules_in_order(state, ruleSeq, tileSeq) = result

\* C35 witness: a call returned Some on a wave with a cell of two labels one
\* of which has a rule that is violated there and a rule that is not, so
\* that the order decides which of the two the loop meets first.
C35_Witness ==
    /\ pc = "ordered"
    /\ result.tag = "Some"
    /\ \E c \in Grid(state), r1 \in rules, r2 \in rules :
          LET adj == get_possibilities_adjacent_pixels(state.possible_vals, c[1], c[2])
          IN  /\ Cardinality(state.possible_vals[c[1]][c[2]]) = 2
              /\ r1.curr_tile \in state.possible_vals[c[1]][c[2]]
              /\ r2.curr_tile = r1.curr_tile
              /\ RuleViolated(r1, adj)
              /\ ~RuleViolated(r2, adj)

=============================================================================
